---- MODULE Spec2Model ----
(***************************************************************************)
(* Model of the CMS patient-monitor decoder (cms_decode.py) and of its two *)
(* callers' read loops (cms_pcap_convert.process_file, _handle_cms).       *)
(*                                                                         *)
(* Bytes are naturals 0..255, a bytes object is a sequence of them.  A     *)
(* Python call is modelled by its outcome: a record with `exc` (empty, or  *)
(* the one exception that propagates) and `ret` (empty, or the one value   *)
(* returned).  Offsets are written in hexadecimal (\h20) as in the source. *)
(***************************************************************************)
EXTENDS Integers, Sequences, FiniteSets, TLC

Min(a, b) == IF a <= b THEN a ELSE b

Minimum(S) == CHOOSE x \in S : \A y \in S : x <= y

\* ------------------------------------------------------------ outcomes

Returned(v) == [exc |-> <<>>, ret |-> <<v>>]

Raised(kind, args) == [exc |-> <<[kind |-> kind, args |-> args]>>, ret |-> <<>>]

Failed(r) == r.exc # <<>>

Value(r) == r.ret[1]

\* Statement sequencing: the first statement that raises ends the function.
\* (TLC evaluates `rest` only when r did not raise.)
Then(r, rest) == IF Failed(r) THEN r ELSE rest

\* assert cond          (msg = <<>>)   /   assert cond, i   (msg = <<i>>)
assert(cond, msg) == IF cond THEN Returned(TRUE) ELSE Raised("AssertionError", msg)

\* ------------------------------------------------------------ bytes

\* data[a:b] for 0 <= a <= b: a Python slice is cut at the end of data.
Slice(data, a, b) == SubSeq(data, Min(a, Len(data)) + 1, Min(b, Len(data)))

\* data[i]: IndexError past the end.
Index(data, i) ==
    IF i < Len(data) THEN Returned(data[i + 1])
    ELSE Raised("IndexError", <<"index out of range">>)

\* "%02x" % d: two hexadecimal digits, high one first.
Hex2(d) == <<(d \div 16) % 16, d % 16>>

\* "%04x" % n
Hex4(n) == <<(n \div 4096) % 16, (n \div 256) % 16, (n \div 16) % 16, n % 16>>

\* " ".join("%02x" % d for d in data): the tokens, in order.
HexJoin(data) == [i \in 1..Len(data) |-> Hex2(data[i])]

\* struct.unpack(fmt, data) raises struct.error unless len(data) is the
\* size of fmt; with "<" there is no padding, so the size is the sum of the
\* field widths.
unpack(size, data) ==
    IF Len(data) = size THEN Returned(data)
    ELSE Raised("struct.error", <<"unpack requires a buffer of", size>>)

\* "<B" and "<H" fields of an unpacked buffer, at byte position p (0-based).
U8(d, p) == d[p + 1]

U16(d, p) == d[p + 1] + 256 * d[p + 2]

\* "<f": an IEEE-754 binary32, little-endian, kept as its three bit fields.
F32(d, p) ==
    [sign |-> d[p + 4] \div 128,
     exponent |-> (d[p + 4] % 128) * 2 + d[p + 3] \div 128,
     fraction |-> (d[p + 3] % 128) * 65536 + d[p + 2] * 256 + d[p + 1]]

\* ------------------------------------------------------------ text

RECURSIVE LStrip(_)
LStrip(s) == IF s # <<>> /\ Head(s) = 0 THEN LStrip(Tail(s)) ELSE s

RECURSIVE RStrip(_)
RStrip(s) == IF s # <<>> /\ s[Len(s)] = 0 THEN RStrip(SubSeq(s, 1, Len(s) - 1)) ELSE s

\* bytes.decode(): UTF-8.  ASCII bytes decode to themselves; the inputs of
\* this model hold no byte above 0x7F other than 0xFF, which no UTF-8
\* sequence contains, so a byte above 0x7F is a UnicodeDecodeError here.
decode(data) ==
    IF \A i \in 1..Len(data) : data[i] < \h80 THEN Returned(data)
    ELSE Raised("UnicodeDecodeError", <<"invalid start byte">>)

\* def _decode(data): return data.decode().strip('\x00')
_decode(data) ==
    LET s == decode(data)
    IN  Then(s, Returned(RStrip(LStrip(Value(s)))))

RECURSIVE DigitsValue(_)
DigitsValue(s) ==
    IF s = <<>> THEN 0
    ELSE 10 * DigitsValue(SubSeq(s, 1, Len(s) - 1)) + (s[Len(s)] - 48)

\* int(str) on the characters the model draws (NUL, ASCII digits, letters):
\* a non-empty run of digits is its decimal value, anything else, the empty
\* string and an embedded NUL included, is a ValueError.
int(s) ==
    IF s # <<>> /\ \A i \in 1..Len(s) : s[i] \in 48..57 THEN Returned(DigitsValue(s))
    ELSE Raised("ValueError", <<"invalid literal for int()">>)

\* int(_decode(data))
int_decode(data) ==
    LET s == _decode(data)
    IN  Then(s, int(Value(s)))

DaysInMonth(y, m) ==
    IF m = 2 THEN (IF (y % 4 = 0 /\ y % 100 # 0) \/ y % 400 = 0 THEN 29 ELSE 28)
    ELSE IF m \in {4, 6, 9, 11} THEN 30 ELSE 31

\* datetime.date(year, month, day)
date(y, m, d) ==
    IF y \in 1..9999 /\ m \in 1..12 /\ d >= 1 /\ d <= DaysInMonth(y, m)
    THEN Returned([year |-> y, month |-> m, day |-> d])
    ELSE Raised("ValueError", <<"date out of range">>)

\* datetime.datetime(year, month, day, hour, minute, second)
datetime(y, m, d, hh, mm, ss) ==
    IF Failed(date(y, m, d)) \/ hh > 23 \/ mm > 59 \/ ss > 59
    THEN Raised("ValueError", <<"datetime out of range">>)
    ELSE Returned([year |-> y, month |-> m, day |-> d,
                   hour |-> hh, minute |-> mm, second |-> ss])

\* for i in range(a, b): assert data[i] == 0[, i]
\* The first i of the range that is past the end raises IndexError, the
\* first that holds a nonzero byte raises AssertionError (with args (i,)
\* when the assert names i), whichever comes first.
AssertZeroRange(data, a, b, named) ==
    LET bad == {i \in a..(b - 1) : i >= Len(data) \/ data[i + 1] # 0}
        i == Minimum(bad)
    IN  IF bad = {} THEN Returned(TRUE)
        ELSE IF i >= Len(data) THEN Index(data, i)
        ELSE assert(FALSE, IF named THEN <<i>> ELSE <<>>)

\* ------------------------------------------------------------ blocks

\* CmsDataBlock.__init__ without `assert self.length == len(data)`.
CmsDataBlock_NoLengthCheck(length, block_type, data) ==
    Returned([length |-> length, block_type |-> block_type,
              data |-> IF Len(data) = 0 THEN <<>> ELSE data])

\* class CmsDataBlock: __init__(self, length, block_type, data)
CmsDataBlock(length, block_type, data) ==
    Then(assert(length = Len(data), <<>>),
         Returned([length |-> length, block_type |-> block_type,
                   data |-> IF Len(data) = 0 THEN <<>> ELSE data]))

\* class CmsDataBlock3E (patient info)
CmsDataBlock3E(length, data) ==
    LET base == CmsDataBlock(length, \h3E, data)
        department == _decode(Slice(data, \h0, \h20))
        r20 == Index(data, \h20)
        r21 == Index(data, \h21)
        bed == Index(data, \h22)
        patient_name == _decode(Slice(data, \h23, \h43))
        patient_number == _decode(Slice(data, \h43, \h63))
        admit_year == int_decode(Slice(data, \h63, \h68))
        admit_month == int_decode(Slice(data, \h68, \h6B))
        admit_day == int_decode(Slice(data, \h6B, \h6E))
        admit_date == date(Value(admit_year), Value(admit_month), Value(admit_day))
        hw == unpack(4, Slice(data, \h74, \h78))
        birth_year == int_decode(Slice(data, \h7C, \h81))
        birth_month == int_decode(Slice(data, \h81, \h84))
        birth_day == int_decode(Slice(data, \h84, \h87))
        birth_date == date(Value(birth_year), Value(birth_month), Value(birth_day))
        blood_type == Index(data, \h8C)
        doctor_name == _decode(Slice(data, \h8D, \hAD))
        values == [department |-> Value(department),
                   bed |-> Value(bed),
                   patient_name |-> Value(patient_name),
                   patient_number |-> Value(patient_number),
                   admit_date |-> Value(admit_date),
                   height_m |-> [num |-> U16(Value(hw), 0), den |-> 1000],
                   weight_kg |-> [num |-> U16(Value(hw), 2), den |-> 10],
                   birth_date |-> Value(birth_date),
                   blood_type |-> Value(blood_type),
                   doctor_name |-> Value(doctor_name)]
        unk == [unk_78 |-> HexJoin(Slice(data, \h78, \h7C))]
    IN  Then(base,
        Then(department,
        Then(r20, Then(assert(Value(r20) = 0, <<>>),
        Then(r21, Then(assert(Value(r21) = 0, <<>>),
        Then(bed,
        Then(patient_name,
        Then(patient_number,
        Then(admit_year, Then(admit_month, Then(admit_day, Then(admit_date,
        Then(AssertZeroRange(data, \h6E, \h74, TRUE),
        Then(hw,
        Then(birth_year, Then(birth_month, Then(birth_day, Then(birth_date,
        Then(AssertZeroRange(data, \h87, \h8B, TRUE),
        Then(blood_type,
        Then(doctor_name,
        Then(AssertZeroRange(data, \hAD, Len(data), TRUE),
             Returned([values |-> values, unk |-> unk] @@ Value(base))
        )))))))))))))))))))))))

\* class CmsDataBlock43
CmsDataBlock43(length, data) ==
    LET base == CmsDataBlock(length, \h43, data)
    IN  Then(base,
        Then(assert(Len(data) = 0, <<>>),
             base))

\* class CmsDataBlock45 (bed assignment)
CmsDataBlock45(length, data) ==
    LET base == CmsDataBlock(length, \h45, data)
        u == unpack(4, data)
    IN  Then(base,
        Then(assert(Len(data) = 4, <<>>),
        Then(u,
        Then(assert(U8(Value(u), 0) = 0 /\ U8(Value(u), 1) = 0 /\ U8(Value(u), 3) = \hFF, <<>>),
             Returned([bed |-> U8(Value(u), 2)] @@ Value(base))))))

\* A (value, flag) pair once the flag is known to be 0 or 255:
\* `hr if hr_valid else None`, None being the empty sequence.
Optional(value, valid) == IF valid THEN <<value>> ELSE <<>>

\* CmsDataBlock46._decode_lead_14 (ECG and respiration)
_decode_lead_14(data) ==
    LET leads == [ecg1 |-> Slice(data, \h4, \h104),
                  ecg2 |-> Slice(data, \h104, \h204),
                  ecg3 |-> Slice(data, \h204, \h304),
                  resp |-> Slice(data, \h304, \h384)]
        v == unpack(4, Slice(data, \h384, \h388))
        hr == U8(Value(v), 0)
        hr_flag == U8(Value(v), 1)
        rr == U8(Value(v), 2)
        rr_flag == U8(Value(v), 3)
        f3 == unpack(12, Slice(data, \h388, \h394))
        alm == unpack(12, Slice(data, \h3A3, \h3AF))
        u3af == unpack(30, Slice(data, \h3AF, \h3CD))
        pvc == unpack(6, Slice(data, \h3CD, \h3D3))
        values == ("hr" :> Optional(hr, hr_flag = 0)) @@
                  ("hr_valid" :> (hr_flag = 0)) @@
                  ("resp" :> Optional(rr, rr_flag = 0)) @@
                  ("resp_valid" :> (rr_flag = 0)) @@
                  ("alarm/hr_max" :> U16(Value(alm), 0)) @@
                  ("alarm/hr_min" :> U16(Value(alm), 2)) @@
                  ("alarm/hr_set" :> U16(Value(alm), 4)) @@
                  ("alarm/resp_max" :> U16(Value(alm), 6)) @@
                  ("alarm/resp_min" :> U16(Value(alm), 8)) @@
                  ("alarm/resp_set" :> U16(Value(alm), 10)) @@
                  ("alarm/pvc_max" :> U16(Value(pvc), 0)) @@
                  ("alarm/pvc_min" :> U16(Value(pvc), 2)) @@
                  ("alarm/pvc_set" :> U16(Value(pvc), 4))
        unk == [unk_388_f |-> F32(Value(f3), 0),
                unk_38c_f |-> F32(Value(f3), 4),
                unk_390_f |-> F32(Value(f3), 8),
                unk_394 |-> HexJoin(Slice(data, \h394, \h3A3)),
                unk_3af_f |-> F32(Value(u3af), 0),
                unk_3b3_f |-> F32(Value(u3af), 4),
                unk_3b7_d |-> U16(Value(u3af), 8),
                unk_3b9_f |-> F32(Value(u3af), 10),
                unk_3bb_f |-> F32(Value(u3af), 14),
                unk_3bf_d |-> U16(Value(u3af), 18),
                unk_3c1_f |-> F32(Value(u3af), 20),
                unk_3c5_f |-> F32(Value(u3af), 24),
                unk_3c9_d |-> U16(Value(u3af), 28)]
    IN  Then(v,
        Then(assert(hr_flag = 0 \/ hr_flag = 255, <<>>),
        Then(assert(rr_flag = 0 \/ rr_flag = 255, <<>>),
        Then(f3,
        Then(alm,
        Then(u3af,
        Then(pvc,
        Then(AssertZeroRange(data, \h3D3, Len(data), FALSE),
             Returned([leads |-> leads, values |-> values, unk |-> unk])))))))))

\* CmsDataBlock46._decode_lead_15 (SpO2 and plethysmogram)
_decode_lead_15(data) ==
    LET leads == [pleth |-> Slice(data, \h4, \h104)]
        v == unpack(4, Slice(data, \h104, \h108))
        spo2 == U8(Value(v), 0)
        attached_flag == U8(Value(v), 1)
        spo2_hr == U8(Value(v), 2)
        valid_flag == U8(Value(v), 3)
        spo2_valid == (valid_flag = 0)
        alm == unpack(12, Slice(data, \h108, \h114))
        values == ("spo2" :> Optional(spo2, spo2_valid)) @@
                  ("spo2_attached" :> (attached_flag = 0)) @@
                  ("spo2_hr" :> Optional(spo2_hr, spo2_valid)) @@
                  ("spo2_valid" :> spo2_valid) @@
                  ("alarm/spo2_min" :> U16(Value(alm), 0)) @@
                  ("alarm/spo2_max" :> U16(Value(alm), 2)) @@
                  ("alarm/spo2_set" :> U16(Value(alm), 4)) @@
                  ("alarm/spo2_hr_min" :> U16(Value(alm), 6)) @@
                  ("alarm/spo2_hr_max" :> U16(Value(alm), 8)) @@
                  ("alarm/spo2_hr_set" :> U16(Value(alm), 10))
    IN  Then(v,
        Then(assert(attached_flag = 0 \/ attached_flag = 255, <<>>),
        Then(assert(valid_flag = 0 \/ valid_flag = 255, <<>>),
        Then(assert(spo2_valid \/ (spo2 = 255 /\ spo2_hr = 255), <<>>),
        Then(alm,
        Then(AssertZeroRange(data, \h114, Len(data), FALSE),
             Returned([leads |-> leads, values |-> values, unk |-> <<>>])))))))

\* CmsDataBlock46._decode_lead_16 (non-invasive blood pressure)
_decode_lead_16(data) ==
    LET bp == unpack(13, Slice(data, \h04, \h11))
        nibp_time == datetime(U16(Value(bp), 0), U8(Value(bp), 2), U8(Value(bp), 3),
                              U8(Value(bp), 4), U8(Value(bp), 5), U8(Value(bp), 6))
        alm == unpack(18, Slice(data, \h11, \h23))
        values == ("nibp_time" :> Value(nibp_time)) @@
                  ("nibp_sys" :> U16(Value(bp), 7)) @@
                  ("nibp_dia" :> U16(Value(bp), 9)) @@
                  ("nibp_map" :> U16(Value(bp), 11)) @@
                  ("alarm/bp_sys_max" :> U16(Value(alm), 0)) @@
                  ("alarm/bp_sys_min" :> U16(Value(alm), 2)) @@
                  ("alarm/bp_sys_set" :> U16(Value(alm), 4)) @@
                  ("alarm/bp_dia_max" :> U16(Value(alm), 6)) @@
                  ("alarm/bp_dia_min" :> U16(Value(alm), 8)) @@
                  ("alarm/bp_dia_set" :> U16(Value(alm), 10)) @@
                  ("alarm/bp_map_max" :> U16(Value(alm), 12)) @@
                  ("alarm/bp_map_min" :> U16(Value(alm), 14)) @@
                  ("alarm/bp_map_set" :> U16(Value(alm), 16))
    IN  Then(bp,
        Then(nibp_time,
        Then(alm,
        Then(AssertZeroRange(data, \h23, Len(data), FALSE),
             Returned([leads |-> <<>>, values |-> values, unk |-> <<>>])))))

\* CmsDataBlock46._decode_lead_17 (temperature)
_decode_lead_17(data) ==
    LET t == unpack(42, Slice(data, \h04, \h2E))
        values == ("t1" :> F32(Value(t), 0)) @@
                  ("t2" :> F32(Value(t), 4)) @@
                  ("td" :> F32(Value(t), 8)) @@
                  ("alarm/t1_max" :> F32(Value(t), 12)) @@
                  ("alarm/t1_min" :> F32(Value(t), 16)) @@
                  ("alarm/t1_set" :> U16(Value(t), 20)) @@
                  ("alarm/t2_max" :> F32(Value(t), 22)) @@
                  ("alarm/t2_min" :> F32(Value(t), 26)) @@
                  ("alarm/t2_set" :> U16(Value(t), 30)) @@
                  ("alarm/td_max" :> F32(Value(t), 32)) @@
                  ("alarm/td_min" :> F32(Value(t), 36)) @@
                  ("alarm/td_set" :> U16(Value(t), 40))
    IN  Then(t,
        Then(AssertZeroRange(data, \h2E, Len(data), FALSE),
             Returned([leads |-> <<>>, values |-> values, unk |-> <<>>])))

\* class CmsDataBlock46 (telemetry): the lead byte selects the sub-decoder;
\* leads, values and unk start as empty dicts and the sub-decoder fills them.
\* The lead dispatch with an unknown lead treated as an error.
LeadDispatch_RejectUnknown(lead, data) ==
    IF lead = \h14 THEN _decode_lead_14(data)
    ELSE IF lead = \h15 THEN _decode_lead_15(data)
    ELSE IF lead = \h16 THEN _decode_lead_16(data)
    ELSE IF lead = \h17 THEN _decode_lead_17(data)
    ELSE assert(FALSE, <<>>)

\* if self.lead == 0x14: ... elif ... else: self.unk['unk_4'] = ...
LeadDispatch(lead, data) ==
    IF lead = \h14 THEN _decode_lead_14(data)
    ELSE IF lead = \h15 THEN _decode_lead_15(data)
    ELSE IF lead = \h16 THEN _decode_lead_16(data)
    ELSE IF lead = \h17 THEN _decode_lead_17(data)
    ELSE Returned([leads |-> <<>>, values |-> <<>>,
                   unk |-> [unk_4 |-> HexJoin(Slice(data, \h4, Len(data)))]])

\* The finished telemetry object: the base fields, self.lead and what the
\* lead's decoder stored; its exception, if it raised.
WithLead(base, lead, sub) ==
    Then(sub, Returned([lead |-> lead] @@ Value(sub) @@ base))

CmsDataBlock46(length, data) ==
    LET base == CmsDataBlock(length, \h46, data)
        u == unpack(4, Slice(data, 0, 4))
        lead == U8(Value(u), 2)
    IN  Then(base,
        Then(u,
        Then(assert(U8(Value(u), 0) = 0 /\ U8(Value(u), 1) = 0 /\ U8(Value(u), 3) = 0, <<>>),
             WithLead(Value(base), lead, LeadDispatch(lead, data)))))

\* class CmsDataBlock47 (synchronisation marker)
CmsDataBlock47(length, data) ==
    LET base == CmsDataBlock(length, \h47, data)
    IN  Then(base,
        Then(assert(Len(data) = 0, <<>>),
             base))

\* class CmsDataBlock49 (error notice)
CmsDataBlock49(length, data) ==
    LET base == CmsDataBlock(length, \h49, data)
        code == Index(data, 0)
        message == decode(Slice(data, 1, Len(data)))
    IN  Then(base,
        Then(code,
        Then(message,
             Returned([code |-> Value(code), message |-> Value(message)] @@ Value(base)))))

\* def _get_block(length, block_type, data).  An AssertionError is reported
\* on stderr (type, length, payload in hexadecimal) and raised again; every
\* other exception passes through the try statement untouched.
Construct(length, block_type, data) ==
    IF block_type = \h3E THEN CmsDataBlock3E(length, data)
    ELSE IF block_type = \h43 THEN CmsDataBlock43(length, data)
    ELSE IF block_type = \h45 THEN CmsDataBlock45(length, data)
    ELSE IF block_type = \h46 THEN CmsDataBlock46(length, data)
    ELSE IF block_type = \h47 THEN CmsDataBlock47(length, data)
    ELSE IF block_type = \h49 THEN CmsDataBlock49(length, data)
    ELSE CmsDataBlock(length, block_type, data)

\* The except clause, applied to the outcome r of the try body.
ExceptAssertionError(r, length, block_type, data) ==
    [exc |-> r.exc, ret |-> r.ret,
     stderr |-> IF Failed(r) /\ r.exc[1].kind = "AssertionError"
                THEN <<[block_type |-> Hex2(block_type), length |-> Hex4(length),
                        data |-> HexJoin(data)]>>
                ELSE <<>>]

_get_block(length, block_type, data) ==
    ExceptAssertionError(Construct(length, block_type, data), length, block_type, data)

\* ------------------------------------------------------------ inputs

Zeros(n) == [i \in 1..n |-> 0]

\* data with the bytes of `field` written at offset `at`
Put(data, at, field) ==
    [i \in 1..Len(data) |->
        IF i > at /\ i <= at + Len(field) THEN field[i - at] ELSE data[i]]

\* How many frames a byte source carries, how many of its last bytes may be
\* missing, how many calls a caller makes, how many bytes of a payload are
\* changed.
MaxFrames == 2

MaxCut == 2

MaxCalls == 3

MaxEdits == 1

\* A patient-info payload: "ICU", bed 7, "BOB", "42", admitted 2020-02-29,
\* 1750 mm, 70.5 kg, born 1980-12-31, blood type 2, "DOC", two trailing zeros.
Payload3E ==
    Put(Put(Put(Put(Put(Put(Put(Put(Put(Put(Put(Put(Put(Put(Zeros(\hAF),
        \h00, <<73, 67, 85>>), \h22, <<7>>), \h23, <<66, 79, 66>>), \h43, <<52, 50>>),
        \h63, <<50, 48, 50, 48>>), \h68, <<48, 50>>), \h6B, <<50, 57>>),
        \h74, <<214, 6>>), \h76, <<193, 2>>), \h78, <<1, 2, 3, 4>>),
        \h7C, <<49, 57, 56, 48>>), \h81, <<49, 50>>), \h84, <<51, 49>>),
        \h8C, <<2, 68, 79, 67>>)

Payload45 == <<0, 0, 7, \hFF>>

Payload49 == <<\h2A, \h45, \h52>>

\* Telemetry payloads: the 4-byte lead header, then the lead's layout.
\* Lead 0x14: heart rate 70 and respiration rate 16, both valid.
Payload46_14 ==
    Put(Put(Put(Put(Put(Zeros(\h3D5),
        \h00, <<0, 0, \h14, 0>>), \h04, <<128, 130>>), \h384, <<70, 0, 16, 0>>),
        \h3A3, <<180, 0, 40, 0, 1, 0, 30, 0, 8, 0, 1, 0>>), \h3CD, <<10, 0, 0, 0, 1, 0>>)

\* Lead 0x15: SpO2 98, probe attached, pulse 80, valid.
Payload46_15 ==
    Put(Put(Put(Zeros(\h116),
        \h00, <<0, 0, \h15, 0>>), \h104, <<98, 0, 80, 0>>),
        \h108, <<90, 0, 100, 0, 1, 0, 50, 0, 120, 0, 1, 0>>)

\* Lead 0x15 with no measurement: both values 255 under flag 255.
Payload46_15_invalid == Put(Payload46_15, \h104, <<255, 0, 255, 255>>)

\* Lead 0x16: measured 2020-02-29 23:59:59, 120/80 (93).
Payload46_16 ==
    Put(Put(Zeros(\h25),
        \h00, <<0, 0, \h16, 0>>),
        \h04, <<228, 7, 2, 29, 23, 59, 59, 120, 0, 80, 0, 93, 0>>)

\* Lead 0x17: T1 = 1.0 (00 00 80 3F), the rest zero.
Payload46_17 ==
    Put(Put(Zeros(\h30), \h00, <<0, 0, \h17, 0>>), \h04, <<0, 0, \h80, \h3F>>)

\* A lead this decoder does not know.
Payload46_20 == <<0, 0, \h20, 0, 9, 8, 7>>

\* The payloads decoding starts from, each with the offsets at which one
\* byte may then be changed and the lengths it may be cut to.
Templates ==
    { [data |-> Payload3E,
       offsets |-> {\h00, \h20, \h21, \h69, \h6C, \h6E, \h73, \h7B, \h87, \h8A, \h8B, \h8C,
                    \h8D, \hAD, \hAE},
       cuts |-> {\h20, \h8C, \h8D, \h9D, \hAD}],
      [data |-> Payload45, offsets |-> {0, 1, 2, 3}, cuts |-> {0, 3}],
      [data |-> Payload49, offsets |-> {0, 1}, cuts |-> {0, 1}],
      [data |-> Payload46_14,
       offsets |-> {0, 1, 2, 3, \h384, \h385, \h386, \h387, \h3D2, \h3D3, \h3D4},
       cuts |-> {3, \h104, \h3D2, \h3D3}],
      [data |-> Payload46_15,
       offsets |-> {0, 1, 2, 3, \h104, \h105, \h106, \h107, \h113, \h114, \h115},
       cuts |-> {\h104, \h113, \h114}],
      [data |-> Payload46_15_invalid,
       offsets |-> {\h104, \h105, \h106, \h107},
       cuts |-> {\h114}],
      [data |-> Payload46_16, offsets |-> {0, 1, 3, \h06, \h22, \h23, \h24}, cuts |-> {\h22, \h23}],
      [data |-> Payload46_17, offsets |-> {0, 1, 3, \h2D, \h2E, \h2F}, cuts |-> {\h2D, \h2E}],
      [data |-> Payload46_20, offsets |-> {0, 1, 2, 3, 4}, cuts |-> {3, 4}] }

\* Byte values written by a change: NUL, 1, 'A', 0xFF.
EditValues == {0, 1, 65, 255}

\* Type codes tried: the six the dispatcher knows and three it does not.
TypeCodes == {\h3E, \h43, \h45, \h46, \h47, \h49, \h00, \h99, \hFF}

\* ------------------------------------------------------------ readers

\* The payload length without `length -= 2`.
PayloadLen_Declared(length) == length

\* length -= 2: the declared length counts the two header bytes after it.
PayloadLen(length) == length - 2

\* An outcome of the frame reader itself: nothing is written to stderr.
Quiet(r) == [exc |-> r.exc, ret |-> r.ret, stderr |-> <<>>]

\* def cms_read_block_from_bytes(data, offset=0)
cms_read_block_from_bytes(data, offset) ==
    LET l == unpack(2, Slice(data, offset, offset + 2))
        length == U16(Value(l), 0)
        h == unpack(2, Slice(data, offset + 2, offset + 4))
        hdr == U8(Value(h), 0)
        btype == U8(Value(h), 1)
        n == PayloadLen(length)
    IN  Then(Quiet(l),
        Then(Quiet(assert(length >= 2, <<>>)),
        Then(Quiet(h),
        Then(Quiet(assert(hdr = \h05, <<>>)),
             _get_block(n, btype, Slice(data, offset + 4, offset + 4 + n))))))

\* The advance without the four header bytes.
NextOffset_PayloadOnly(offset, block) == offset + block.length

\* offset += 4 + block.length
NextOffset(offset, block) == offset + 4 + block.length

\* asyncio.StreamReader.read(n) on a buffer holding `buffered`: at most n
\* bytes, as many as are buffered; nothing for n = 0 or at end of stream.
\* With an empty buffer, n > 0 and the stream open, the call is suspended.
StreamRead(buffered, n) == Slice(buffered, 0, n)

\* Frames on the wire: [declared_length: u16 LE][magic][type][payload].
Frame(magic, type, data) ==
    <<(Len(data) + 2) % 256, (Len(data) + 2) \div 256, magic, type>> \o data

\* The frames a byte source is made of: a sync marker, a bed assignment, a
\* bed assignment whose marker byte is wrong (it does not decode), a block
\* of unknown type.
FramePool ==
    { Frame(\h05, \h47, <<>>),
      Frame(\h05, \h45, Payload45),
      Frame(\h05, \h45, <<0, 0, 7, 0>>),
      Frame(\h05, \h99, <<1>>) }

FrameSeqs == UNION {[1..n -> FramePool] : n \in 1..MaxFrames}

RECURSIVE Concat(_)
Concat(fs) == IF fs = <<>> THEN <<>> ELSE Head(fs) \o Concat(Tail(fs))

\* The offset at which frame k of fs starts (k = Len(fs) + 1: where fs ends).
FrameStart(fs, k) == Len(Concat(SubSeq(fs, 1, k - 1)))

\* ------------------------------------------------------------ state

VARIABLES
    block_type,   \* decode_block: the type code given to _get_block
    payload,      \* decode_block: the payload given to _get_block
    template,     \* the payload decoding started from, with its offsets
    previous,     \* the payload before its last change
    edits,        \* the number of changes made to the payload
    outcome,      \* what _get_block(len(payload), block_type, payload) did
    frames,       \* the frames the peer sends / the packet holds
    wire,         \* stream: bytes sent by the peer that have not arrived yet
    sbuf,         \* stream: the StreamReader's buffer (arrived, not yet read)
    eof,          \* stream: the peer has closed the connection
    pc,           \* stream: the await the handler is at
    length,       \* stream: local `length` of the call in progress
    btype,        \* stream: local `block_type` of the call in progress
    consumed,     \* stream: bytes read from the StreamReader so far
    start,        \* stream: `consumed` when the call in progress began
    results,      \* one record per finished call of a reader: where in the
                  \* source it started and stopped, its outcome, whether the
                  \* stream was still open, the await it ended at and
                  \* whether its last read got all the bytes it asked for
    buf,          \* process_file: pkt[TCP].load
    offset,       \* process_file: offset
    bpc,          \* process_file: "loop", "done" or "raised"
    state,        \* process_file: the state dict
    rows          \* process_file: the rows written to the CSV file

decodeVars == <<block_type, payload, template, previous, edits, outcome>>

streamVars == <<wire, sbuf, eof, pc, length, btype, consumed, start>>

bytesVars == <<buf, offset, bpc, state, rows>>

vars == <<decodeVars, frames, results, streamVars, bytesVars>>

NoDecode ==
    /\ block_type = 0
    /\ payload = <<>>
    /\ template = [data |-> <<>>, offsets |-> {}, cuts |-> {}]
    /\ previous = <<>>
    /\ edits = 0
    /\ outcome = <<>>

NoStream ==
    /\ wire = <<>>
    /\ sbuf = <<>>
    /\ eof = FALSE
    /\ pc = "off"
    /\ length = 0
    /\ btype = 0
    /\ consumed = 0
    /\ start = 0

NoBytes ==
    /\ buf = <<>>
    /\ offset = 0
    /\ bpc = "off"
    /\ state = <<>>
    /\ rows = <<>>

\* ------------------------------------------------------------ decode_block

\* decode_block(type, payload) of the public surface: _get_block with the
\* payload's own length.
decode_block(type, data) == _get_block(Len(data), type, data)

InitDecode ==
    /\ template \in Templates
    /\ block_type \in TypeCodes
    /\ payload = template.data
    /\ previous = template.data
    /\ edits = 0
    /\ outcome = decode_block(block_type, payload)
    /\ frames = <<>>
    /\ results = <<>>
    /\ NoStream
    /\ NoBytes

\* One byte of the payload is overwritten and the payload decoded again.
Poke ==
    /\ edits < MaxEdits
    /\ \E o \in template.offsets, v \in EditValues :
          /\ o < Len(payload)
          /\ payload[o + 1] # v
          /\ payload' = [payload EXCEPT ![o + 1] = v]
    /\ previous' = payload
    /\ edits' = edits + 1
    /\ outcome' = decode_block(block_type, payload')
    /\ UNCHANGED <<block_type, template, frames, results, streamVars, bytesVars>>

\* The payload is cut to a shorter length and decoded again.
Truncate ==
    /\ edits < MaxEdits
    /\ \E n \in template.cuts :
          /\ n < Len(payload)
          /\ payload' = SubSeq(payload, 1, n)
    /\ previous' = payload
    /\ edits' = edits + 1
    /\ outcome' = decode_block(block_type, payload')
    /\ UNCHANGED <<block_type, template, frames, results, streamVars, bytesVars>>

NextDecode == Poke \/ Truncate

SpecDecode == InitDecode /\ [][NextDecode]_vars

\* ------------------------------------------------------------ stream mode

\* The peer sends the frames back to back; they arrive in chunks.
InitStream ==
    /\ frames \in FrameSeqs
    /\ wire = Concat(frames)
    /\ sbuf = <<>>
    /\ eof = FALSE
    /\ pc = "read_length"
    /\ length = 0
    /\ btype = 0
    /\ consumed = 0
    /\ start = 0
    /\ results = <<>>
    /\ NoDecode
    /\ NoBytes

\* The next k bytes on the wire reach the StreamReader's buffer.
Arrive ==
    /\ pc # "off"
    /\ ~eof
    /\ \E k \in 1..Len(wire) :
          /\ sbuf' = sbuf \o SubSeq(wire, 1, k)
          /\ wire' = SubSeq(wire, k + 1, Len(wire))
    /\ UNCHANGED <<decodeVars, frames, results, eof, pc, length, btype,
                   consumed, start, bytesVars>>

\* The peer closes the connection; what it had not sent never arrives.
Close ==
    /\ pc # "off"
    /\ ~eof
    /\ eof' = TRUE
    /\ wire' = <<>>
    /\ UNCHANGED <<decodeVars, frames, results, sbuf, pc, length, btype,
                   consumed, start, bytesVars>>

\* await stream.read(n) can complete.
CanRead(n) == n = 0 \/ sbuf # <<>> \/ eof

\* The call in progress ends with outcome r, having asked for n bytes in its
\* last read and got d.  The caller gets the block and calls again (the
\* `while True` of _handle_cms), or gets the exception: _handle_cms lets it
\* end the handler, a caller that skips the failed block calls again.
Finish(r, n, d) ==
    /\ results' = Append(results, [start |-> start, stop |-> consumed + Len(d),
                                   out |-> r, open |-> ~eof, at |-> pc,
                                   whole |-> Len(d) = n])
    /\ start' = consumed + Len(d)
    /\ pc' \in IF Failed(r) THEN {"raised", "read_length"} ELSE {"read_length"}

\* length, = struct.unpack("<H", await stream.read(2)); assert length >= 2
ReadLength ==
    /\ pc = "read_length"
    /\ Len(results) < MaxCalls
    /\ CanRead(2)
    /\ LET d == StreamRead(sbuf, 2)
           l == unpack(2, d)
           r == Then(Quiet(l), Quiet(assert(U16(Value(l), 0) >= 2, <<>>)))
       IN  /\ sbuf' = SubSeq(sbuf, Len(d) + 1, Len(sbuf))
           /\ consumed' = consumed + Len(d)
           /\ IF Failed(r)
              THEN Finish(r, 2, d) /\ UNCHANGED length
              ELSE /\ length' = U16(Value(l), 0)
                   /\ pc' = "read_header"
                   /\ UNCHANGED <<results, start>>
    /\ UNCHANGED <<decodeVars, frames, wire, eof, btype, bytesVars>>

\* hdr, block_type = struct.unpack("<BB", await stream.read(2));
\* assert hdr == 0x05; length -= 2
ReadHeader ==
    /\ pc = "read_header"
    /\ CanRead(2)
    /\ LET d == StreamRead(sbuf, 2)
           h == unpack(2, d)
           r == Then(Quiet(h), Quiet(assert(U8(Value(h), 0) = \h05, <<>>)))
       IN  /\ sbuf' = SubSeq(sbuf, Len(d) + 1, Len(sbuf))
           /\ consumed' = consumed + Len(d)
           /\ IF Failed(r)
              THEN Finish(r, 2, d) /\ UNCHANGED <<length, btype>>
              ELSE /\ btype' = U8(Value(h), 1)
                   /\ length' = PayloadLen(length)
                   /\ pc' = "read_data"
                   /\ UNCHANGED <<results, start>>
    /\ UNCHANGED <<decodeVars, frames, wire, eof, bytesVars>>

\* data = await stream.read(length); return _get_block(length, block_type, data)
ReadData ==
    /\ pc = "read_data"
    /\ CanRead(length)
    /\ LET d == StreamRead(sbuf, length)
       IN  /\ sbuf' = SubSeq(sbuf, Len(d) + 1, Len(sbuf))
           /\ consumed' = consumed + Len(d)
           /\ Finish(_get_block(length, btype, d), length, d)
    /\ UNCHANGED <<decodeVars, frames, wire, eof, length, btype, bytesVars>>

NextStream == Arrive \/ Close \/ ReadLength \/ ReadHeader \/ ReadData

SpecStream == InitStream /\ [][NextStream]_vars

\* ------------------------------------------------------------ buffer mode

\* process_file, for one packet: buf holds the frames back to back, or all
\* but its last bytes when the capture cut the packet short.
InitBytes ==
    /\ frames \in FrameSeqs
    /\ \E cut \in 0..MaxCut : buf = SubSeq(Concat(frames), 1, Len(Concat(frames)) - cut)
    /\ offset = 0
    /\ bpc = "loop"
    /\ state = [time |-> 0]
    /\ rows = <<>>
    /\ results = <<>>
    /\ NoDecode
    /\ NoStream

\* dict.update: the keys of `more` replace or extend those of d.
Update(d, more) == more @@ d

\* One turn of `while offset < len(buf)`: read a block at offset, merge its
\* values and leads into state, write a row on a 0x47 block, advance offset.
\* An exception of the read leaves the loop and the function.
Merged(d, block) ==
    Update(IF "values" \in DOMAIN block THEN Update(d, block.values) ELSE d,
           IF "leads" \in DOMAIN block THEN block.leads ELSE <<>>)

\* The loop body once the read at offset has ended with outcome r.
LoopBody(r) ==
    /\ results' = Append(results, [start |-> offset, stop |-> offset,
                                   out |-> r, open |-> TRUE, at |-> bpc,
                                   whole |-> TRUE])
    /\ IF Failed(r)
       THEN /\ bpc' = "raised"
            /\ UNCHANGED <<offset, state, rows>>
       ELSE /\ state' = Merged(state, Value(r))
            /\ rows' = IF Value(r).block_type = \h47 THEN Append(rows, state') ELSE rows
            /\ offset' = NextOffset(offset, Value(r))
            /\ UNCHANGED bpc

LoopStep ==
    /\ bpc = "loop"
    /\ offset < Len(buf)
    /\ LoopBody(cms_read_block_from_bytes(buf, offset))
    /\ UNCHANGED <<decodeVars, frames, buf, streamVars>>

\* The loop condition fails: the packet is done.
LoopExit ==
    /\ bpc = "loop"
    /\ offset >= Len(buf)
    /\ bpc' = "done"
    /\ UNCHANGED <<decodeVars, frames, results, buf, offset, state, rows, streamVars>>

NextBytes == LoopStep \/ LoopExit

SpecBytes == InitBytes /\ [][NextBytes]_vars

\* Both read modes.
InitRead == InitStream \/ InitBytes

NextRead == Arrive \/ Close \/ ReadLength \/ ReadHeader \/ ReadData \/ LoopStep \/ LoopExit

SpecRead == InitRead /\ [][NextRead]_vars

\* ------------------------------------------------------------ claims

Recognized == {\h3E, \h43, \h45, \h46, \h47, \h49}

KnownLeads == {\h14, \h15, \h16, \h17}

Kind(r) == r.exc[1].kind

\* All the bytes the source of a read loop holds: the packet, or what the
\* peer sends before it closes.
Source ==
    IF bpc # "off" THEN buf
    ELSE SubSeq(Concat(frames), 1, consumed + Len(sbuf) + Len(wire))

\* The frame at which a call started, if it started at a frame boundary.
StartsFrame(c, k) == k \in 1..Len(frames) /\ c.start = FrameStart(frames, k)

\* What reading frame k yields when all its bytes are there at once.
WholeFrame(k) == cms_read_block_from_bytes(Concat(frames), FrameStart(frames, k))

\* C1: in both read modes, a block that is returned holds exactly
\* declared_length - 2 payload bytes, those that follow the header; and when
\* the source holds fewer than that after a valid header the read fails (in
\* the payload read: with the AssertionError of the length check), it never
\* returns a block built from the shorter payload.
C1_PayloadLengthExact ==
    \A i \in DOMAIN results :
        LET c == results[i]
            src == Source
            declared == U16(src, c.start)
        IN  /\ ~Failed(c.out) =>
                 /\ c.start + 4 <= Len(src)
                 /\ declared >= 2
                 /\ Value(c.out).length = declared - 2
                 /\ Len(Value(c.out).data) = declared - 2
                 /\ Value(c.out).data = Slice(src, c.start + 4, c.start + 2 + declared)
            /\ (/\ c.start + 4 <= Len(src)
                /\ declared >= 2
                /\ U8(src, c.start + 2) = \h05
                /\ Len(src) < c.start + 2 + declared) =>
                 /\ Failed(c.out)
                 /\ c.at \in {"read_data", "loop"} => Kind(c.out) = "AssertionError"

\* C1 witness: on a stream, a call returned a block, the peer closed and
\* the next call failed over a payload cut short.
C1_Witness ==
    /\ pc # "off"
    /\ eof
    /\ Len(results) >= 2
    /\ ~Failed(results[1].out)
    /\ results[2].at = "read_data"
    /\ ~results[2].whole
    /\ Failed(results[2].out)

\* C2 (as claimed): on a source that is still open, a call that starts at a
\* frame ends with what reading the whole frame at once yields, however the
\* frame's bytes are split into arrival chunks.
C2_Claim_ChunkingInvisible ==
    \A i \in DOMAIN results : \A k \in 1..Len(frames) :
        (pc # "off" /\ results[i].open /\ StartsFrame(results[i], k))
            => results[i].out = WholeFrame(k)

\* C6: a call of cms_read_block_from_stream that starts at a frame, reads its
\* payload in full and fails in the decoder has consumed the whole frame; the
\* next call starts at the following frame and, when its own reads are not
\* cut short, ends with what that frame yields.
C6_SemanticErrorKeepsAlignment ==
    \A i \in DOMAIN results : \A k \in 1..Len(frames) :
        LET c == results[i]
        IN  (pc # "off" /\ StartsFrame(c, k) /\ c.at = "read_data" /\ c.whole
                /\ Failed(c.out)) =>
               /\ c.stop = FrameStart(frames, k + 1)
               /\ (i + 1) \in DOMAIN results =>
                     /\ results[i + 1].start = FrameStart(frames, k + 1)
                     /\ (results[i + 1].at = "read_data" /\ results[i + 1].whole)
                           => results[i + 1].out = WholeFrame(k + 1)

\* C6 witness: the first frame failed in its decoder with its payload read
\* in full, and the next call returned the second frame's block.
C6_Witness ==
    /\ pc # "off"
    /\ Len(results) >= 2
    /\ results[1].at = "read_data"
    /\ results[1].whole
    /\ Failed(results[1].out)
    /\ ~Failed(results[2].out)
    /\ results[2].out = WholeFrame(2)

FramePayload(f) == SubSeq(f, 5, Len(f))

\* The buffer is n frames back to back, each of which decodes.
WellFormedBuffer ==
    /\ buf = Concat(frames)
    /\ \A k \in 1..Len(frames) : ~Failed(decode_block(frames[k][4], FramePayload(frames[k])))

\* C7: over a buffer of n well-formed frames the loop of process_file calls
\* cms_read_block_from_bytes once per frame, the k-th call at the first byte
\* of frame k, returning its block, whose length is the frame's payload
\* length; it never raises, goes on exactly while frames remain, and ends
\* after n calls with offset = len(buf).
C7_BufferIteration ==
    (bpc # "off" /\ WellFormedBuffer) =>
        /\ bpc # "raised"
        /\ Len(results) <= Len(frames)
        /\ offset = FrameStart(frames, Len(results) + 1)
        /\ \A i \in DOMAIN results :
              /\ results[i].start = FrameStart(frames, i)
              /\ results[i].out = decode_block(frames[i][4], FramePayload(frames[i]))
              /\ Value(results[i].out).length = Len(frames[i]) - 4
        /\ bpc = "loop" => ((offset < Len(buf)) <=> (Len(results) < Len(frames)))
        /\ bpc = "done" => (Len(results) = Len(frames) /\ offset = Len(buf))

\* C7 witness: the loop has ended over a buffer of two well-formed frames.
C7_Witness ==
    /\ bpc = "done"
    /\ WellFormedBuffer
    /\ Len(frames) = 2
    /\ Len(results) = 2

\* The raw lead payload of a telemetry block: the bytes after the header.
RawLead(data) == HexJoin(SubSeq(data, 5, Len(data)))

RawBlockReturned ==
    /\ ~Failed(outcome)
    /\ Value(outcome).block_type = block_type
    /\ Value(outcome).data = payload

RawLeadReturned ==
    /\ ~Failed(outcome)
    /\ Value(outcome).lead = payload[3]
    /\ Value(outcome).unk = [unk_4 |-> RawLead(payload)]

\* C5 (as claimed): an unrecognized type code always yields a raw block with
\* the type and the payload; a 0x46 payload with a lead byte outside
\* {0x14..0x17} always yields a block with the raw lead payload.
C5_Claim_FallbackNeverFails ==
    /\ (pc = "off" /\ bpc = "off" /\ block_type \notin Recognized) => RawBlockReturned
    /\ (pc = "off" /\ bpc = "off" /\ block_type = \h46 /\ Len(payload) >= 3
            /\ payload[3] \notin KnownLeads) => RawLeadReturned

\* C5 (amended): an unrecognized type code always yields a raw block with
\* the type and the payload; a 0x46 payload that holds the whole 4-byte
\* lead header, with its three reserved bytes zero and a lead byte outside
\* {0x14..0x17}, yields a block with the raw lead payload.
C5_Fallback ==
    /\ (pc = "off" /\ bpc = "off" /\ block_type \notin Recognized) => RawBlockReturned
    /\ (pc = "off" /\ bpc = "off" /\ block_type = \h46 /\ Len(payload) >= 4
            /\ payload[1] = 0 /\ payload[2] = 0 /\ payload[4] = 0
            /\ payload[3] \notin KnownLeads) => RawLeadReturned

\* C5 witness: a telemetry payload whose lead byte was changed to 0xFF came
\* back as a block with the raw lead payload.
C5_Witness ==
    /\ block_type = \h46
    /\ edits = 1
    /\ Len(payload) > 4
    /\ payload[3] = \hFF
    /\ RawLeadReturned

\* The (value, flag) fields of a telemetry payload: the offsets of the value
\* bytes, the offset of the flag, the keys of the decoded values.
SentinelFields(data) ==
    IF data[3] = \h14
    THEN { [at |-> <<\h384>>, flag |-> \h385, keys |-> <<"hr">>, upto |-> \h3D3],
           [at |-> <<\h386>>, flag |-> \h387, keys |-> <<"resp">>, upto |-> \h3D3] }
    ELSE IF data[3] = \h15
    THEN { [at |-> <<\h104, \h106>>, flag |-> \h107, keys |-> <<"spo2", "spo2_hr">>,
            upto |-> \h114] }
    ELSE {}

\* C3 (as claimed): for every (value, flag) field of leads 0x14 and 0x15,
\* flag 0 decodes to the value, flag 255 decodes to absent and requires the
\* value bytes to be 255 (decoding fails otherwise), any other flag fails.
C3_Claim_SentinelLaw ==
    (pc = "off" /\ bpc = "off" /\ block_type = \h46 /\ Len(payload) >= 4) =>
        \A f \in SentinelFields(payload) :
            LET flag == payload[f.flag + 1]
            IN  Len(payload) >= f.upto =>
                  /\ flag \notin {0, 255} =>
                        (Failed(outcome) /\ Kind(outcome) = "AssertionError")
                  /\ (flag = 255 /\ \E j \in DOMAIN f.at : payload[f.at[j] + 1] # 255)
                        => Failed(outcome)
                  /\ ~Failed(outcome) =>
                        \A j \in DOMAIN f.at :
                            Value(outcome).values[f.keys[j]] =
                                IF flag = 0 THEN <<payload[f.at[j] + 1]>> ELSE <<>>

\* The offsets at which payload differs from what it was before its last
\* change (of a byte).
Changed == {o \in 0..(Len(payload) - 1) : previous[o + 1] # payload[o + 1]}

\* The reserved (must be zero) offsets of a payload of the given type.
Reserved(type, data) ==
    LET n == Len(data)
    IN  IF type = \h3E
        THEN {\h20, \h21} \cup (\h6E..\h73) \cup (\h87..\h8A) \cup (\hAD..(n - 1))
        ELSE IF type = \h45 THEN {0, 1}
        ELSE IF type = \h46 /\ n >= 4
        THEN {0, 1, 3} \cup
             (IF data[3] = \h14 THEN \h3D3..(n - 1)
              ELSE IF data[3] = \h15 THEN \h114..(n - 1)
              ELSE IF data[3] = \h16 THEN \h23..(n - 1)
              ELSE IF data[3] = \h17 THEN \h2E..(n - 1)
              ELSE {})
        ELSE {}

\* C4 (as claimed): when a payload decodes and one byte of a reserved range
\* is then made nonzero, decoding fails with an AssertionError that names
\* the offset of that byte.
C4_Claim_ReservedNonZeroOffset ==
    (/\ pc = "off" /\ bpc = "off"
     /\ Len(previous) = Len(payload)
     /\ Cardinality(Changed) = 1
     /\ ~Failed(decode_block(block_type, previous))) =>
        \A o \in Changed \cap Reserved(block_type, payload) :
            payload[o + 1] # 0 =>
                /\ Failed(outcome)
                /\ Kind(outcome) = "AssertionError"
                /\ outcome.exc[1].args = <<o>>

\* C8 (as claimed): when a recognized type does not decode, the failure
\* comes with the diagnosis: the type code, the length and the payload.
C8_Claim_EveryFailureDiagnosed ==
    (pc = "off" /\ bpc = "off" /\ block_type \in Recognized /\ Failed(outcome)) =>
        outcome.stderr = <<[block_type |-> Hex2(block_type),
                            length |-> Hex4(Len(payload)),
                            data |-> HexJoin(payload)]>>

\* The length up to the end of the last fixed-width field of a layout.
FixedLength(type, data) ==
    IF type = \h3E THEN \hAD
    ELSE IF type = \h45 THEN 4
    ELSE IF type = \h49 THEN 1
    ELSE IF type = \h46
    THEN (IF Len(data) < 4 THEN 4
          ELSE IF data[3] = \h14 THEN \h3D3
          ELSE IF data[3] = \h15 THEN \h114
          ELSE IF data[3] = \h16 THEN \h23
          ELSE IF data[3] = \h17 THEN \h2E
          ELSE 4)
    ELSE 0

\* C9 (as claimed): no typed decoder succeeds on a payload that ends before
\* the end of the last fixed-width field of its layout.
C9_Claim_BoundsChecked ==
    (pc = "off" /\ bpc = "off" /\ block_type \in Recognized
        /\ Len(payload) < FixedLength(block_type, payload)) => Failed(outcome)

\* C10 (as claimed): in a patient-info payload the blood type is the byte
\* right after the four reserved bytes that follow the birth date (offset
\* 0x8B), the doctor name the 32 bytes after it, and no byte is skipped: a
\* payload that decodes and differs from another that decodes in one byte
\* does not decode to the same values and unknown bytes.
C10_Claim_ContiguousLayout ==
    (pc = "off" /\ bpc = "off" /\ block_type = \h3E /\ ~Failed(outcome)) =>
        /\ Value(outcome).values.blood_type = payload[\h8B + 1]
        /\ Value(outcome).values.doctor_name =
               RStrip(LStrip(Slice(payload, \h8C, \h8C + 32)))
        /\ (/\ Len(previous) = Len(payload)
            /\ Changed = {\h8B}
            /\ ~Failed(decode_block(block_type, previous))) =>
               \/ Value(outcome).values # Value(decode_block(block_type, previous)).values
               \/ Value(outcome).unk # Value(decode_block(block_type, previous)).unk

====
